---- MODULE Spec2Model ----
(***************************************************************************)
(* News data extractor: the two storage backends (DatabaseHandler over a   *)
(* MongoDB collection, FileStorage over a directory of JSON files), and    *)
(* the pipeline that feeds them.                                           *)
(*                                                                         *)
(* An article is a Python dict. It is modelled as a record that carries    *)
(* the set of its keys; a field whose key is absent holds a fixed filler,  *)
(* so that two dicts are equal exactly when their records are.             *)
(***************************************************************************)
EXTENDS Integers, Sequences, FiniteSets, TLC

\* ------------------------------------------------------------- bounds
MaxTime  == 2     \* clock readings 1..MaxTime
MaxLimit == 2     \* limit and skip of a query range over 0..MaxLimit
MaxBatch == 2     \* length of a list handed to save_articles
MaxEntries == 1   \* entries of one feed
MaxRuns  == 1     \* pipeline runs
MaxListed == 2    \* entries of one feed where their order is observed

\* ------------------------------------------------------------- values
None == "None"                       \* Python's None, where a string is expected

Falsy(v) == v \in {None, ""}         \* `not v` for a string or None

Ids      == {"a", "b"}
Titles   == {"t1", "t2"}
Sources  == {"BBC News", "CNN"}
Topics   == {"business", "technology"}
TopicLists == {<<>>, <<"business">>, <<"business", "technology">>}

\* scraped_at: an ISO-format string, a datetime object, or some other string
IsoStr(t)   == [kind |-> "str",      t |-> t]
Datetime(t) == [kind |-> "datetime", t |-> t]
OtherStr    == [kind |-> "text",     t |-> 0]
NoStamp     == [kind |-> "absent",   t |-> 0]

\* the dict {k: v, ...}: absent keys carry the filler. The feed fields
\* published and summary, which nothing reads, are left out.
Dict(keys, id, title, source, topics, content, stamp) ==
  [keys       |-> keys,
   article_id |-> IF "article_id" \in keys THEN id      ELSE None,
   title      |-> IF "title"      \in keys THEN title   ELSE None,
   source     |-> IF "source"     \in keys THEN source  ELSE None,
   topics     |-> IF "topics"     \in keys THEN topics  ELSE <<>>,
   content    |-> IF "content"    \in keys THEN content ELSE None,
   scraped_at |-> IF "scraped_at" \in keys THEN stamp   ELSE NoStamp,
   link       |-> None,
   keywords   |-> <<>>,
   entities   |-> <<>>,
   top_image  |-> None,
   authors    |-> <<>>]

EmptyDict == Dict({}, None, None, None, <<>>, None, NoStamp)

\* article.get('article_id')
GetArticleId(article) == article.article_id

Range(s) == {s[i] : i \in DOMAIN s}

Min(a, b) == IF a < b THEN a ELSE b

\* all orderings of a finite set, as sequences
RECURSIVE Perms(_)
Perms(S) ==
  IF S = {} THEN {<<>>}
  ELSE UNION {{<<x>> \o p : p \in Perms(S \ {x})} : x \in S}

\* ------------------------------------------------------------- state
VARIABLES
  db,       \* the MongoDB collection: a set of documents
  fs,       \* the articles directory: a set of files [path, data, mtime]
  clock,    \* the current time
  call,     \* the last save call: arguments as the caller holds them, and results
  reply,    \* the pending return value of a read operation
  run       \* the pipeline run in progress

vars == <<db, fs, clock, call, reply, run>>

Idle == [op |-> "idle"]

\* ------------------------------------------------- DatabaseHandler (MongoDB)
\* `not article or not article.get('article_id')`
MissingId(article) == Falsy(GetArticleId(article))

\* an update that replaces the document by the article
ReplaceFields(doc, article) ==
  [k \in DOMAIN doc |->
     IF k = "keys" THEN article.keys \cup {"_id"}
     ELSE IF k \in article.keys THEN article[k] ELSE EmptyDict[k]]

\* an update that writes only the fields the document does not have
SetMissingFields(doc, article) ==
  [k \in DOMAIN doc |->
     IF k = "keys" THEN doc.keys \cup article.keys
     ELSE IF k \in article.keys \ doc.keys THEN article[k] ELSE doc[k]]

\* the update document {"$set": article}: every key of article is written,
\* every other field of the stored document stays
SetFields(doc, article) ==
  [k \in DOMAIN doc |->
     IF k = "keys" THEN doc.keys \cup article.keys
     ELSE IF k \in article.keys THEN article[k] ELSE doc[k]]

\* the document an upsert inserts: the filter's equality field and a fresh _id
Upserted(id) == Dict({"_id", "article_id"}, id, None, None, <<>>, None, NoStamp)

\* a wrong filter: every save inserts
InsertAlways(coll, id, article) == coll \cup {SetFields(Upserted(id), article)}

\* collection.update_one({"article_id": id}, {"$set": article}, upsert=True)
UpdateOneUpsert(coll, id, article) ==
  LET hit == {d \in coll : "article_id" \in d.keys /\ d.article_id = id}
  IN  IF hit # {}
      THEN LET d == CHOOSE x \in hit : TRUE
           IN  (coll \ {d}) \cup {SetFields(d, article)}
      ELSE coll \cup {SetFields(Upserted(id), article)}

\* save_article without the article_id check
DbSaveUnchecked(coll, article) ==
  [coll |-> UpdateOneUpsert(coll, article.article_id, article), ok |-> TRUE]

\* save_article: the three result branches all return True
DbSaveArticle(coll, article) ==
  IF MissingId(article)
  THEN [coll |-> coll, ok |-> FALSE]
  ELSE [coll |-> UpdateOneUpsert(coll, article.article_id, article), ok |-> TRUE]

\* a loop that gives up at the first article that fails to save
RECURSIVE SaveUntilFailure(_, _)
SaveUntilFailure(coll, articles) ==
  IF articles = <<>> THEN [coll |-> coll, count |-> 0]
  ELSE LET one == DbSaveArticle(coll, Head(articles))
       IN  IF ~one.ok THEN [coll |-> coll, count |-> 0]
           ELSE LET rest == SaveUntilFailure(one.coll, Tail(articles))
                IN  [coll |-> rest.coll, count |-> rest.count + 1]

\* save_articles: save_article on every article in order, counting the
\* successes; an empty list returns 0
RECURSIVE DbSaveArticles(_, _)
DbSaveArticles(coll, articles) ==
  IF articles = <<>> THEN [coll |-> coll, count |-> 0]
  ELSE LET one  == DbSaveArticle(coll, Head(articles))
           rest == DbSaveArticles(one.coll, Tail(articles))
       IN  [coll |-> rest.coll, count |-> rest.count + (IF one.ok THEN 1 ELSE 0)]

\* collection.find_one({"article_id": article_id}); None when there is none
DbGetArticleById(coll, id) ==
  LET hit == {d \in coll : "article_id" \in d.keys /\ d.article_id = id}
  IN  IF hit = {} THEN <<>> ELSE <<CHOOSE x \in hit : TRUE>>

\* ------------------------------------------------- FileStorage (JSON files)
\* datetime.isoformat() on scraped_at when it is a datetime
Serialize(article) ==
  IF "scraped_at" \in article.keys /\ article.scraped_at.kind = "datetime"
  THEN [article EXCEPT !.scraped_at = IsoStr(article.scraped_at.t)]
  ELSE article

\* datetime.fromisoformat() on scraped_at when it is a string; a string that
\* is no ISO timestamp raises ValueError and stays as it is
Deserialize(data) ==
  IF "scraped_at" \in data.keys /\ data.scraped_at.kind = "str"
  THEN [data EXCEPT !.scraped_at = Datetime(data.scraped_at.t)]
  ELSE data

\* the content of a file between open(path, 'w') and the end of json.dump:
\* empty or a prefix of the JSON text, which json.load cannot parse
PartialJson == [EmptyDict EXCEPT !.keys = {"<partial json>"}]

\* a json.load that takes a partly written file for an empty record
LoadsAnything(data) == FALSE

\* json.load(f) raises: the file holds no complete JSON text
JsonLoadRaises(data) == data = PartialJson

\* os.path.join(articles_dir, f"{article['article_id']}.json")
ArticlePath(article) == article.article_id

\* writing the file after clearing the directory
WriteOnlyFile(dir, path, data, now) ==
  {[path |-> path, data |-> data, mtime |-> now]}

\* open(path, 'w') and json.dump: the file is created or replaced
WriteFile(dir, path, data, now) ==
  {f \in dir : f.path # path} \cup {[path |-> path, data |-> data, mtime |-> now]}

\* open(path, 'w'): the file is created, or truncated when it exists
OpenForWrite(dir, path, now) == WriteFile(dir, path, PartialJson, now)

\* scraped_at stamped on every save
FsSaveAlwaysStamp(dir, article, now) ==
  IF MissingId(article)
  THEN [fs |-> dir, ok |-> FALSE, article |-> article]
  ELSE LET stamped == [article EXCEPT !.keys = @ \cup {"scraped_at"},
                                      !.scraped_at = Datetime(now)]
       IN  [fs |-> WriteFile(dir, ArticlePath(stamped), Serialize(stamped), now),
            ok |-> TRUE, article |-> stamped]

\* save_article: the caller's dict gets scraped_at when it has none
FsSaveArticle(dir, article, now) ==
  IF MissingId(article)
  THEN [fs |-> dir, ok |-> FALSE, article |-> article]
  ELSE LET stamped == IF "scraped_at" \notin article.keys
                      THEN [article EXCEPT !.keys = @ \cup {"scraped_at"},
                                           !.scraped_at = Datetime(now)]
                      ELSE article
       IN  [fs |-> WriteFile(dir, ArticlePath(stamped), Serialize(stamped), now),
            ok |-> TRUE, article |-> stamped]

\* get_article_by_id: None when the path does not exist, and None when
\* json.load raises
FsGetArticleById(dir, id) ==
  LET hit == {f \in dir : f.path = id}
  IN  IF hit = {} THEN <<>>
      ELSE IF (CHOOSE f \in hit : TRUE).data = PartialJson THEN <<>>
      ELSE <<Deserialize((CHOOSE f \in hit : TRUE).data)>>

\* count_articles: the number of .json files
FsCountArticles(dir) == Cardinality(dir)

\* ------------------------------------------------- queries, DatabaseHandler
NoFilter          == [field |-> "none",   value |-> None]
TopicFilter(t)    == [field |-> "topics", value |-> t]
SourceFilter(src) == [field |-> "source", value |-> src]

\* a filter document matches: {} matches all, {"topics": t} matches an array
\* holding t, {"source": s} matches an equal field
Matches(doc, filter) ==
  CASE filter.field = "none"   -> TRUE
    [] filter.field = "topics" -> "topics" \in doc.keys /\ filter.value \in Range(doc.topics)
    [] filter.field = "source" -> "source" \in doc.keys /\ doc.source = filter.value

\* BSON's comparison order of the values scraped_at takes: a missing field
\* (null) before every string, every string before every date
StampRank(stamp) ==
  CASE stamp.kind = "absent"   -> 0
    [] stamp.kind = "str"      -> stamp.t
    [] stamp.kind = "text"     -> 1000
    [] stamp.kind = "datetime" -> 1000 + stamp.t

\* cursor.sort([("scraped_at", DESCENDING)]): the orders the server may
\* return, documents with equal keys in any order
SortByScrapedAtDesc(docs) ==
  {q \in Perms(docs) :
     \A i \in 1..(Len(q) - 1) : StampRank(q[i].scraped_at) >= StampRank(q[i + 1].scraped_at)}

\* cursor.skip(n)
CursorSkip(q, n) == SubSeq(q, n + 1, Len(q))

\* cursor.limit(n): a limit of 0 is no limit
CursorLimit(q, n) == IF n = 0 THEN q ELSE SubSeq(q, 1, Min(n, Len(q)))

\* get_articles(filters, limit, skip) with sort_by = None: every result the
\* call may return, with the full sorted cursor it was cut from
DbGetArticles(coll, filter, limit, skip) ==
  {[full |-> q, out |-> CursorLimit(CursorSkip(q, skip), limit)] :
     q \in SortByScrapedAtDesc({d \in coll : Matches(d, filter)})}

\* get_article_count(filters): count_documents
DbGetArticleCount(coll, filter) == Cardinality({d \in coll : Matches(d, filter)})

\* $unwind topics, $group by topic with $sum 1: one entry per topic value
UnwindGroup(coll) ==
  LET unwound == UNION {{<<d, i>> : i \in DOMAIN d.topics} :
                          d \in {x \in coll : "topics" \in x.keys}}
      labels  == {p[1].topics[p[2]] : p \in unwound}
  IN  {[_id |-> t, count |-> Cardinality({p \in unwound : p[1].topics[p[2]] = t})] :
         t \in labels}

\* $sort {"count": -1}: entries with equal counts in any order
SortByCountDesc(entries) ==
  {q \in Perms(entries) : \A i \in 1..(Len(q) - 1) : q[i].count >= q[i + 1].count}

\* get_topics_summary
DbGetTopicsSummary(coll) == SortByCountDesc(UnwindGroup(coll))

\* {"$group": {"_id": "$source", "count": {"$sum": 1}}}: a document without
\* source is counted under null
GroupBySource(coll) ==
  LET SourceOf(d) == IF "source" \in d.keys THEN d.source ELSE None
  IN  {[_id |-> src, count |-> Cardinality({d \in coll : SourceOf(d) = src})] :
         src \in {SourceOf(d) : d \in coll}}

\* get_sources_summary
DbGetSourcesSummary(coll) == SortByCountDesc(GroupBySource(coll))

\* ------------------------------------------------- queries, FileStorage
\* os.listdir(articles_dir): the files in an order the system chooses
ListDir(dir) == Perms(dir)

\* list.sort(key, reverse=True) on records with a key: stable
RECURSIVE StableSortDesc(_)
StableSortDesc(q) ==
  IF q = <<>> THEN <<>>
  ELSE LET front == StableSortDesc(SubSeq(q, 1, Len(q) - 1))
           x     == q[Len(q)]
           k     == Cardinality({i \in DOMAIN front : front[i].key >= x.key})
       IN  SubSeq(front, 1, k) \o <<x>> \o SubSeq(front, k + 1, Len(front))

\* the loop of get_articles_by_topic / get_articles_by_source over the
\* listing: items are [data, hit]. The try is around the whole loop: when
\* json.load raises on a file the loop reaches, the handler returns []
RECURSIVE ScanLoop(_, _, _, _, _)
ScanLoop(items, limit, skip, articles, skipped) ==
  IF items = <<>> THEN articles
  ELSE LET x == Head(items) IN
       IF JsonLoadRaises(x.data) THEN <<>>
       ELSE IF ~x.hit THEN ScanLoop(Tail(items), limit, skip, articles, skipped)
       ELSE IF skipped < skip
            THEN ScanLoop(Tail(items), limit, skip, articles, skipped + 1)
            ELSE LET more == Append(articles, Deserialize(x.data))
                 IN  IF Len(more) >= limit THEN more
                     ELSE ScanLoop(Tail(items), limit, skip, more, skipped)

\* the matching articles of a listing, in listing order
SelectHits(items) ==
  LET F[i \in 0..Len(items)] ==
        IF i = 0 THEN <<>>
        ELSE IF items[i].hit THEN Append(F[i - 1], Deserialize(items[i].data))
             ELSE F[i - 1]
  IN  F[Len(items)]

\* `'topics' in article_data and topic in article_data['topics']`
TopicHit(data, topic) == "topics" \in data.keys /\ topic \in Range(data.topics)

\* `'source' in article_data and article_data['source'] == source`
SourceHit(data, source) == "source" \in data.keys /\ data.source = source

\* get_articles_by_topic(topic, limit, skip)
FsGetArticlesByTopic(dir, topic, limit, skip) ==
  {LET items == [i \in DOMAIN ls |-> [data |-> ls[i].data, hit |-> TopicHit(ls[i].data, topic)]]
   IN  [full |-> SelectHits(items), out |-> ScanLoop(items, limit, skip, <<>>, 0)] :
     ls \in ListDir(dir)}

\* get_articles_by_source(source, limit, skip)
FsGetArticlesBySource(dir, source, limit, skip) ==
  {LET items == [i \in DOMAIN ls |-> [data |-> ls[i].data, hit |-> SourceHit(ls[i].data, source)]]
   IN  [full |-> SelectHits(items), out |-> ScanLoop(items, limit, skip, <<>>, 0)] :
     ls \in ListDir(dir)}

\* get_recent_articles(limit, skip): sort the paths by modification time,
\* most recent first, slice [skip:skip+limit], load the files of the slice;
\* when json.load raises on one of them the handler returns []
FsGetRecentArticles(dir, limit, skip) ==
  {LET keyed  == [i \in DOMAIN ls |-> [data |-> ls[i].data, key |-> ls[i].mtime]]
       sorted == StableSortDesc(keyed)
       paged  == SubSeq(sorted, skip + 1, Min(skip + limit, Len(sorted)))
   IN  [full |-> [i \in DOMAIN sorted |-> Deserialize(sorted[i].data)],
        out  |-> IF \E i \in DOMAIN paged : JsonLoadRaises(paged[i].data) THEN <<>>
                 ELSE [i \in DOMAIN paged |-> Deserialize(paged[i].data)]] :
     ls \in ListDir(dir)}

\* a counting loop that sets the count instead of adding to it
RECURSIVE CountTopicsOnce(_, _)
CountTopicsOnce(met, counts) ==
  IF met = <<>> THEN counts
  ELSE LET t    == Head(met)
           seen == \E i \in DOMAIN counts : counts[i]._id = t
           c0   == IF seen THEN counts ELSE Append(counts, [_id |-> t, count |-> 1])
       IN  CountTopicsOnce(Tail(met), c0)

\* the counting loop of get_topics_summary over the topics met in the scan:
\* counts is the dict topic_counts in insertion order
RECURSIVE CountTopics(_, _)
CountTopics(met, counts) ==
  IF met = <<>> THEN counts
  ELSE LET t    == Head(met)
           seen == \E i \in DOMAIN counts : counts[i]._id = t
           c0   == IF seen THEN counts ELSE Append(counts, [_id |-> t, count |-> 0])
           c1   == [i \in DOMAIN c0 |->
                      IF c0[i]._id = t THEN [c0[i] EXCEPT !.count = @ + 1] ELSE c0[i]]
       IN  CountTopics(Tail(met), c1)

\* the topics of the files of a listing, in scan order
RECURSIVE TopicsMet(_)
TopicsMet(ls) ==
  IF ls = <<>> THEN <<>>
  ELSE (IF "topics" \in Head(ls).data.keys THEN Head(ls).data.topics ELSE <<>>)
       \o TopicsMet(Tail(ls))

\* get_topics_summary: every file is loaded; sorted(result, key=count,
\* reverse=True), or [] from the handler when json.load raises on a file
FsGetTopicsSummary(dir) ==
  {LET counts == CountTopics(TopicsMet(ls), <<>>)
       keyed  == [i \in DOMAIN counts |-> [e |-> counts[i], key |-> counts[i].count]]
       sorted == StableSortDesc(keyed)
   IN  IF \E i \in DOMAIN ls : JsonLoadRaises(ls[i].data) THEN <<>>
       ELSE [i \in DOMAIN sorted |-> sorted[i].e] :
     ls \in ListDir(dir)}

\* the sources of the files of a listing, in scan order
RECURSIVE SourcesMet(_)
SourcesMet(ls) ==
  IF ls = <<>> THEN <<>>
  ELSE (IF "source" \in Head(ls).data.keys THEN <<Head(ls).data.source>> ELSE <<>>)
       \o SourcesMet(Tail(ls))

\* get_sources_summary: the same loop and the same handler, counting by source
FsGetSourcesSummary(dir) ==
  {LET counts == CountTopics(SourcesMet(ls), <<>>)
       keyed  == [i \in DOMAIN counts |-> [e |-> counts[i], key |-> counts[i].count]]
       sorted == StableSortDesc(keyed)
   IN  IF \E i \in DOMAIN ls : JsonLoadRaises(ls[i].data) THEN <<>>
       ELSE [i \in DOMAIN sorted |-> sorted[i].e] :
     ls \in ListDir(dir)}

\* ------------------------------------------------- NewsScraper
\* hashlib.md5(url.encode()).hexdigest(), on the links of the model; "a"
\* stands for the digest 0bc8b85dea4a53ef6f37032293b7d3ff and "b" for
\* 97379a0e9aba293bbb4f28c5c624f9b6
Md5(url) ==
  CASE url = ""             -> "d41d8cd98f00b204e9800998ecf8427e"
    [] url = "http://bbc/1" -> "a"
    [] url = "http://cnn/2" -> "b"

TitleFed  == "Fed raises interest rates"
TitleTech == "Tech startup data"
BodyBank  == "The bank cut its economic forecast"
BodyAI    == "Google has new AI and artificial intelligence software"

\* config.RSS_FEEDS, the first two names
Feeds == <<"BBC News", "CNN">>

StubKeys == {"title", "link", "source", "article_id", "scraped_at",
             "content", "keywords", "topics"}

\* the stub parse_rss_feeds builds of one entry: entry.get(k, '') for the
\* entry's fields
Stub(entry, feedName, now) ==
  [Dict(StubKeys, Md5(entry.link), entry.title, feedName, <<>>, None, IsoStr(now))
     EXCEPT !.link = entry.link]

\* parse_rss_feeds giving up at the first feed that raises
RECURSIVE ParseUntilFailure(_, _, _)
ParseUntilFailure(outcomes, i, now) ==
  IF i > Len(Feeds) \/ outcomes[i].raises THEN <<>>
  ELSE [j \in DOMAIN outcomes[i].entries |-> Stub(outcomes[i].entries[j], Feeds[i], now)]
       \o ParseUntilFailure(outcomes, i + 1, now)

\* the feeds parse_rss_feeds logs "Error parsing feed" for
FeedErrors(outcomes) == {Feeds[i] : i \in {k \in DOMAIN Feeds : outcomes[k].raises}}

\* parse_rss_feeds: outcomes[i] is what feedparser gives of feed i, its
\* entries or an exception; a feed that raises adds nothing
RECURSIVE ParseRssFeeds(_, _, _)
ParseRssFeeds(outcomes, i, now) ==
  IF i > Len(Feeds) THEN <<>>
  ELSE (IF outcomes[i].raises THEN <<>>
        ELSE [j \in DOMAIN outcomes[i].entries |-> Stub(outcomes[i].entries[j], Feeds[i], now)])
       \o ParseRssFeeds(outcomes, i + 1, now)

\* scrape_article_content storing the text before the fetch has succeeded
ScrapeHalfUpdated(article, page) ==
  IF Falsy(article.link) THEN article
  ELSE [article EXCEPT !.keys = @ \cup {"content"}, !.content = page.text]

\* scrape_article_content: page is what newspaper gives of the link, or an
\* exception in download, parse or nlp
ScrapeArticleContent(article, page) ==
  IF Falsy(article.link) THEN article
  ELSE IF page.raises THEN article
  ELSE [article EXCEPT !.keys      = @ \cup {"content", "keywords", "top_image", "authors"},
                       !.content   = page.text,
                       !.keywords  = page.keywords,
                       !.top_image = page.top_image,
                       !.authors   = page.authors]

\* ------------------------------------------------- InfoExtractor
\* config.TOPICS
TOPICS == <<"politics", "business", "technology", "health", "science",
            "sports", "entertainment">>

\* topic_keywords, the keywords that occur in the texts of the model
TopicKeywords(topic) ==
  CASE topic = "business"   -> {"bank", "economic", "startup", "venture capital"}
    [] topic = "technology" -> {"tech", "software", "startup", "data", "AI",
                                "artificial intelligence", "Google"}
    [] topic = "science"    -> {"data"}
    [] OTHER                -> {}

\* str.lower() on the keywords of the model
Lower(w) == CASE w = "AI" -> "ai" [] w = "Google" -> "google" [] OTHER -> w

\* preprocess_text: word_tokenize of the lowercased text, alphabetic tokens
\* that are no stopwords, lemmatized; [] for an empty text
PreprocessText(text) ==
  CASE Falsy(text)      -> <<>>
    [] text = TitleFed  -> <<"fed", "raise", "interest", "rate">>
    [] text = TitleTech -> <<"tech", "startup", "data">>
    [] text = BodyBank  -> <<"bank", "cut", "economic", "forecast">>
    [] text = BodyAI    -> <<"google", "new", "ai", "artificial", "intelligence", "software">>

\* the multi-word keywords found in the lowercased text
PhrasesIn(text) == IF text = BodyAI THEN {"artificial intelligence"} ELSE {}

\* the tokens of f"{title} {content}": a content of None is formatted as
\* the word None
TextTokens(article) ==
  PreprocessText(article.title)
  \o (IF article.content = None THEN <<"none">> ELSE PreprocessText(article.content))

Occurrences(tokens, words) == Cardinality({i \in DOMAIN tokens : tokens[i] \in words})

\* the score classify_topic gives a topic
TopicScore(article, topic) ==
  LET kws == TopicKeywords(topic)
  IN    3 * Occurrences(PreprocessText(article.title), kws)
      + Occurrences(TextTokens(article), kws)
      + 2 * Cardinality({kw \in kws : kw \in PhrasesIn(article.title)
                                        \cup PhrasesIn(article.content)})
      + 4 * Cardinality({i \in DOMAIN article.keywords :
                           \E kw \in kws : Lower(kw) = Lower(article.keywords[i])})

\* classify_topic: [] without title and content; else the topics with
\* score > 1 by descending score, at most two, or ['general']
ClassifyTopic(article) ==
  IF Falsy(article.content) /\ Falsy(article.title) THEN <<>>
  ELSE LET keyed    == [i \in DOMAIN TOPICS |->
                          [topic |-> TOPICS[i], key |-> TopicScore(article, TOPICS[i])]]
           sorted   == StableSortDesc(keyed)
           n        == Cardinality({i \in DOMAIN sorted : sorted[i].key > 1})
           relevant == [i \in 1..n |-> sorted[i].topic]
       IN  IF n = 0 THEN <<"general">> ELSE SubSeq(relevant, 1, Min(2, n))

\* the entity types extract_named_entities keeps
EntityTypes == {"PERSON", "ORGANIZATION", "LOCATION", "DATE", "MONEY", "GPE"}

\* the labelled chunks ne_chunk finds in the texts of the model, in order
Chunks(text) ==
  IF text = BodyAI THEN <<[label |-> "ORGANIZATION", name |-> "Google"],
                          [label |-> "FACILITY",     name |-> "Lab"]>>
  ELSE <<>>

\* the names of a type among chunks, each once, in order of first occurrence
RECURSIVE NamesOf(_, _)
NamesOf(chunks, type) ==
  IF chunks = <<>> THEN <<>>
  ELSE LET front == NamesOf(SubSeq(chunks, 1, Len(chunks) - 1), type)
           last  == chunks[Len(chunks)]
       IN  IF last.label = type /\ last.name \notin Range(front)
           THEN Append(front, last.name) ELSE front

\* extract_named_entities: the names by type; an exception in the tagger
\* leaves what was collected before it, the first `found` chunks
ExtractNamedEntities(text, found) ==
  [type \in EntityTypes |->
     IF Falsy(text) THEN <<>>
     ELSE NamesOf(SubSeq(Chunks(text), 1, Min(found, Len(Chunks(text)))), type)]

\* process_article: a copy with topics and entities set
ProcessArticle(article, found) ==
  [article EXCEPT !.keys     = @ \cup {"topics", "entities"},
                  !.topics   = ClassifyTopic(article),
                  !.entities = ExtractNamedEntities(article.content, found)]

\* classify_topic reaches the tokenizer and the lemmatizer, which may raise
ReachesTokenizer(article) == ~(Falsy(article.content) /\ Falsy(article.title))

\* ------------------------------------------------- scripts/ingest_csv
\* the id that ignores its argument
Md5OfNothing(text) == Md5("")

\* md5_id: the digest of (text or '')
Md5Id(text) == Md5(IF Falsy(text) THEN "" ELSE text)

\* urlparse(url).netloc on the links of the model
Netloc(url) ==
  CASE url = "http://bbc/1" -> "bbc"
    [] url = "http://cnn/2" -> "cnn"
    [] OTHER                -> ""

\* guess_source_from_url
GuessSourceFromUrl(url) == IF Netloc(url) = "" THEN "Unknown" ELSE Netloc(url)

\* row_to_article: a row holds title, link, content and source, '' for a
\* column that is missing or empty
RowToArticle(row, now) ==
  [Dict(StubKeys, Md5Id(row.link), row.title,
        IF row.source = "" THEN GuessSourceFromUrl(row.link) ELSE row.source,
        <<>>, row.content, IsoStr(now))
     EXCEPT !.link = row.link]

\* ------------------------------------------------- inputs
Stamps == {IsoStr(t) : t \in 1..MaxTime}
AllKeys == {"article_id", "title", "source", "topics", "content", "scraped_at"}

\* well-formed articles that differ in the fields a record carries, with
\* and without scraped_at
Articles ==
  {Dict(AllKeys \ drop, id, title, "CNN", <<"business">>, content, stamp) :
     id \in Ids, title \in Titles,
     content \in {None, "body"}, stamp \in Stamps, drop \in {{}, {"scraped_at"}}}

\* well-formed articles that differ in the fields a query reads
QueryArticles ==
  {Dict(AllKeys \ drop, id, "t1", source, topics, "body", stamp) :
     id \in Ids, source \in Sources, topics \in TopicLists,
     stamp \in Stamps, drop \in {{}, {"scraped_at"}}}

\* articles save must refuse: article_id None, empty, or not a key; the empty dict
BadArticles ==
  {Dict(AllKeys, None, "t1", "CNN", <<>>, None, IsoStr(1)),
   Dict(AllKeys, "", "t1", "CNN", <<"business">>, "body", IsoStr(1)),
   Dict(AllKeys \ {"article_id"}, None, "t2", "CNN", <<>>, None, IsoStr(1)),
   EmptyDict}

\* the articles of a batch: both ids with either title, and one without id
BatchArticles ==
  {Dict(AllKeys, id, title, "CNN", <<>>, None, IsoStr(1)) : id \in Ids, title \in Titles}
  \cup {Dict(AllKeys, None, "t1", "CNN", <<>>, None, IsoStr(1))}

Batches == UNION {[1..n -> BatchArticles] : n \in 0..MaxBatch}

Limits == 0..MaxLimit

\* ------------------------------------------------- the storage contract
NoCall == [op |-> "none", again |-> FALSE, arg |-> EmptyDict,
           db_had |-> FALSE, fs_had |-> FALSE,
           db_ok |-> FALSE, fs_ok |-> FALSE, fs_article |-> EmptyDict]

\* the store holds a record of this id
DbHas(coll, id) == \E d \in coll : d.article_id = id
FsHas(dir, id)  == \E f \in dir : f.data.article_id = id

\* what a feed may hold, and what feedparser may give of a feed
Links   == {"http://bbc/1", "http://cnn/2", ""}
Entries == {[title |-> title, link |-> link] : title \in {TitleFed, TitleTech, ""}, link \in Links}
FeedOutcomes ==
  {[raises |-> TRUE, entries |-> <<>>]}
  \cup {[raises |-> FALSE, entries |-> es] : es \in UNION {[1..n -> Entries] : n \in 0..MaxEntries}}

\* what newspaper may give of a page
Pages ==
  {[raises |-> TRUE, text |-> "", keywords |-> <<>>, top_image |-> "", authors |-> <<>>]}
  \cup {[raises |-> FALSE, text |-> text, keywords |-> kws, top_image |-> "", authors |-> <<>>] :
          text \in {BodyBank, BodyAI, ""}, kws \in {<<>>, <<"AI">>}}

\* run_pipeline: pc is the step it is at, n the runs started; articles,
\* enriched_articles and processed_articles are its lists, passed is what it
\* handed to save_articles, result what it returned, feed_errors the feeds
\* parse_rss_feeds logged an error for
NoRun == [pc |-> "idle", n |-> 0, articles |-> <<>>, enriched |-> <<>>,
          processed |-> <<>>, passed |-> <<>>, handed |-> FALSE,
          saved_count |-> 0, result |-> FALSE, feed_errors |-> {}]

Init ==
  /\ db = {}
  /\ fs = {}
  /\ clock = 1
  /\ call = NoCall
  /\ reply = Idle
  /\ run = NoRun

\* time passes
Tick ==
  /\ clock < MaxTime
  /\ clock' = clock + 1
  /\ UNCHANGED <<db, fs, call, reply, run>>

\* save(article), issued to each backend with its own copy of the dict
Save(article) ==
  /\ reply = Idle
  /\ LET d == DbSaveArticle(db, article)
         f == FsSaveArticle(fs, article, clock)
     IN  /\ db' = d.coll
         /\ fs' = f.fs
         /\ call' = [op |-> "save", again |-> FALSE, arg |-> article,
                     db_had |-> DbHas(db, article.article_id),
                     fs_had |-> FsHas(fs, article.article_id),
                     db_ok |-> d.ok, fs_ok |-> f.ok, fs_article |-> f.article]
  /\ UNCHANGED <<clock, reply, run>>

\* the caller saves the dict it saved last once more, unchanged
SaveAgain ==
  /\ reply = Idle
  /\ call.op = "save"
  /\ LET d == DbSaveArticle(db, call.arg)
         f == FsSaveArticle(fs, call.fs_article, clock)
     IN  /\ db' = d.coll
         /\ fs' = f.fs
         /\ call' = [op |-> "save", again |-> TRUE, arg |-> call.arg,
                     db_had |-> DbHas(db, call.arg.article_id),
                     fs_had |-> FsHas(fs, call.arg.article_id),
                     db_ok |-> d.ok, fs_ok |-> f.ok, fs_article |-> f.article]
  /\ UNCHANGED <<clock, reply, run>>

\* DatabaseHandler.save_articles(articles)
SaveArticles(articles) ==
  /\ reply = Idle
  /\ LET r == DbSaveArticles(db, articles)
     IN  /\ db' = r.coll
         /\ call' = [op |-> "save_articles", articles |-> articles, count |-> r.count]
  /\ UNCHANGED <<fs, clock, reply, run>>

\* get_by_id(id)
GetById(id) ==
  /\ reply = Idle
  /\ reply' = [op |-> "get_by_id", id |-> id,
               db |-> DbGetArticleById(db, id), fs |-> FsGetArticleById(fs, id)]
  /\ UNCHANGED <<db, fs, clock, call, run>>

\* query: recent articles
Recent(limit, skip) ==
  /\ reply = Idle
  /\ \E d \in DbGetArticles(db, NoFilter, limit, skip),
        f \in FsGetRecentArticles(fs, limit, skip) :
       reply' = [op |-> "recent", limit |-> limit, skip |-> skip, db |-> d, fs |-> f]
  /\ UNCHANGED <<db, fs, clock, call, run>>

\* query: by topic
ByTopic(topic, limit, skip) ==
  /\ reply = Idle
  /\ \E d \in DbGetArticles(db, TopicFilter(topic), limit, skip),
        f \in FsGetArticlesByTopic(fs, topic, limit, skip) :
       reply' = [op |-> "by_topic", value |-> topic, limit |-> limit, skip |-> skip,
                 db |-> d, fs |-> f]
  /\ UNCHANGED <<db, fs, clock, call, run>>

\* query: by source
BySource(source, limit, skip) ==
  /\ reply = Idle
  /\ \E d \in DbGetArticles(db, SourceFilter(source), limit, skip),
        f \in FsGetArticlesBySource(fs, source, limit, skip) :
       reply' = [op |-> "by_source", value |-> source, limit |-> limit, skip |-> skip,
                 db |-> d, fs |-> f]
  /\ UNCHANGED <<db, fs, clock, call, run>>

\* count() of the whole corpus
Count ==
  /\ reply = Idle
  /\ reply' = [op |-> "count", db |-> DbGetArticleCount(db, NoFilter),
               fs |-> FsCountArticles(fs)]
  /\ UNCHANGED <<db, fs, clock, call, run>>

\* topics_summary(), with count({"topics": t}) of every topic label
TopicsSummary ==
  /\ reply = Idle
  /\ \E d \in DbGetTopicsSummary(db), f \in FsGetTopicsSummary(fs) :
       reply' = [op |-> "topics_summary", db |-> d, fs |-> f,
                 counts |-> [t \in Topics |-> DbGetArticleCount(db, TopicFilter(t))]]
  /\ UNCHANGED <<db, fs, clock, call, run>>

\* sources_summary()
SourcesSummary ==
  /\ reply = Idle
  /\ \E d \in DbGetSourcesSummary(db), f \in FsGetSourcesSummary(fs) :
       reply' = [op |-> "sources_summary", db |-> d, fs |-> f]
  /\ UNCHANGED <<db, fs, clock, call, run>>

\* the caller takes the return value
Return ==
  /\ reply # Idle
  /\ reply' = Idle
  /\ UNCHANGED <<db, fs, clock, call, run>>

\* run_pipeline, step 1: parse_rss_feeds
StartRun(outcomes) ==
  /\ run.pc = "idle"
  /\ run.n < MaxRuns
  /\ run' = [NoRun EXCEPT !.pc = "scrape", !.n = run.n + 1,
                          !.articles = ParseRssFeeds(outcomes, 1, clock),
                          !.feed_errors = FeedErrors(outcomes)]
  /\ UNCHANGED <<db, fs, clock, call, reply>>

\* step 2, one turn of the loop: scrape_article_content of the next article
ScrapeNext(page) ==
  /\ run.pc = "scrape"
  /\ IF Len(run.enriched) = Len(run.articles)
     THEN run' = [run EXCEPT !.pc = "process"]
     ELSE run' = [run EXCEPT !.enriched =
                    Append(@, ScrapeArticleContent(run.articles[Len(run.enriched) + 1], page))]
  /\ UNCHANGED <<db, fs, clock, call, reply>>

\* a loop that saves every article as soon as it is processed
ProcessThenSave(found, raises) ==
  /\ run.pc = "process"
  /\ Len(run.processed) < Len(run.enriched)
  /\ LET article == ProcessArticle(run.enriched[Len(run.processed) + 1], found)
     IN  /\ run' = [run EXCEPT !.processed = Append(@, article)]
         /\ db' = DbSaveArticle(db, article).coll
  /\ UNCHANGED <<fs, clock, call, reply>>

\* step 3, one turn of the loop: process_article of the next article. An
\* exception in classify_topic is caught by run_pipeline's handler only,
\* which returns False
ProcessNext(found, raises) ==
  /\ run.pc = "process"
  /\ IF Len(run.processed) = Len(run.enriched)
     THEN run' = [run EXCEPT !.pc = "save"]
     ELSE LET article == run.enriched[Len(run.processed) + 1]
          IN  IF raises /\ ReachesTokenizer(article)
              THEN run' = [run EXCEPT !.pc = "done", !.result = FALSE]
              ELSE run' = [run EXCEPT !.processed = Append(@, ProcessArticle(article, found))]
  /\ UNCHANGED <<db, fs, clock, call, reply>>

\* step 4: db.save_articles(processed_articles), return True
SaveBatch ==
  /\ run.pc = "save"
  /\ LET r == DbSaveArticles(db, run.processed)
     IN  /\ db' = r.coll
         /\ run' = [run EXCEPT !.pc = "done", !.passed = run.processed, !.handed = TRUE,
                               !.saved_count = r.count, !.result = TRUE]
  /\ UNCHANGED <<fs, clock, call, reply>>

\* run_pipeline has returned
EndRun ==
  /\ run.pc = "done"
  /\ run' = [run EXCEPT !.pc = "idle"]
  /\ UNCHANGED <<db, fs, clock, call, reply>>

\* run_scheduled, one turn of `while True` up to the end of step 1 of
\* run_pipeline. up says whether MongoDB answers when DatabaseHandler() creates
\* its indexes: if not, __init__ re-raises, run_pipeline has not entered its
\* try yet and run_scheduled has no handler, so the process exits
RunScheduled(up, outcomes) ==
  /\ run.pc = "idle"
  /\ IF up
     THEN run' = [NoRun EXCEPT !.pc = "scrape", !.n = run.n + 1,
                               !.articles = ParseRssFeeds(outcomes, 1, clock),
                               !.feed_errors = FeedErrors(outcomes)]
     ELSE run' = [NoRun EXCEPT !.pc = "exited", !.n = run.n + 1]
  /\ UNCHANGED <<db, fs, clock, call, reply>>

\* the next turn of the loop without the sleep
NoSleep ==
  /\ run.pc = "done"
  /\ run' = [run EXCEPT !.pc = "idle"]
  /\ UNCHANGED <<db, fs, clock, call, reply>>

\* run_scheduled: run_pipeline has returned, the result is logged and
\* time.sleep(UPDATE_INTERVAL) has passed
Sleep ==
  /\ run.pc = "done"
  /\ clock < MaxTime
  /\ clock' = clock + 1
  /\ run' = [run EXCEPT !.pc = "idle"]
  /\ UNCHANGED <<db, fs, call, reply>>

\* ingest_csv, one turn of its loop: a row without link is skipped; else the
\* article is scraped when it has no content, processed and saved. An
\* exception in classify_topic leaves ingest_csv, nothing is saved
IngestCsvRow(row, page, found, raises) ==
  /\ reply = Idle
  /\ run.pc = "idle"
  /\ LET article   == RowToArticle(row, clock)
         enriched  == IF Falsy(article.content) THEN ScrapeArticleContent(article, page)
                      ELSE article
         processed == ProcessArticle(enriched, found)
         saved     == DbSaveArticle(db, processed)
     IN  IF Falsy(article.link)
         THEN /\ db' = db
              /\ call' = [NoCall EXCEPT !.op = "csv_skipped", !.arg = article]
         ELSE IF raises /\ ReachesTokenizer(enriched)
         THEN /\ db' = db
              /\ call' = [NoCall EXCEPT !.op = "csv_raised", !.arg = enriched]
         ELSE /\ db' = saved.coll
              /\ call' = [NoCall EXCEPT !.op = "csv", !.arg = processed,
                                        !.db_had = DbHas(db, processed.article_id),
                                        !.db_ok = saved.ok]
  /\ UNCHANGED <<fs, clock, reply, run>>

\* save(article) while other operations run: MongoDB applies update_one as
\* one step; FileStorage.save_article has opened the file for writing
SaveBegin(article) ==
  /\ reply = Idle
  /\ call.op # "writing"
  /\ LET d == DbSaveArticle(db, article)
         f == FsSaveArticle(fs, article, clock)
     IN  /\ db' = d.coll
         /\ fs' = IF f.ok THEN OpenForWrite(fs, ArticlePath(f.article), clock) ELSE fs
         /\ call' = [op |-> IF f.ok THEN "writing" ELSE "save",
                     again |-> FALSE, arg |-> article,
                     db_had |-> DbHas(db, article.article_id),
                     fs_had |-> FsHas(fs, article.article_id),
                     db_ok |-> d.ok, fs_ok |-> FALSE, fs_article |-> f.article]
  /\ UNCHANGED <<clock, reply, run>>

\* FileStorage.save_article: json.dump has written the file, and it is closed
SaveEnd ==
  /\ call.op = "writing"
  /\ fs' = WriteFile(fs, ArticlePath(call.fs_article), Serialize(call.fs_article), clock)
  /\ call' = [call EXCEPT !.op = "save", !.fs_ok = TRUE]
  /\ UNCHANGED <<db, clock, reply, run>>

Next ==
  \/ Tick
  \/ \E article \in Articles \cup BadArticles : Save(article)
  \/ SaveAgain
  \/ \E id \in Ids \cup {None} : GetById(id)
  \/ Count
  \/ Return

Spec == Init /\ [][Next]_vars

BatchNext ==
  \/ \E articles \in Batches : SaveArticles(articles)
  \/ \E id \in Ids : GetById(id)
  \/ Count
  \/ Return

SpecBatch == Init /\ [][BatchNext]_vars

QueryNext ==
  \/ Tick
  \/ \E article \in QueryArticles : Save(article)
  \/ \E id \in Ids : GetById(id)
  \/ \E limit \in Limits, skip \in Limits : Recent(limit, skip)
  \/ \E topic \in Topics, limit \in Limits, skip \in Limits : ByTopic(topic, limit, skip)
  \/ \E source \in Sources, limit \in Limits, skip \in Limits : BySource(source, limit, skip)
  \/ Count
  \/ TopicsSummary
  \/ Return

SpecQuery == Init /\ [][QueryNext]_vars

\* saves of articles that carry different sets of keys
MergeArticles ==
  {Dict(AllKeys \ drop, id, title, "CNN", <<"business">>, "body", stamp) :
     id \in Ids, title \in Titles, stamp \in Stamps,
     drop \in SUBSET {"scraped_at", "content"}}

MergeNext ==
  \/ Tick
  \/ \E article \in MergeArticles : Save(article)
  \/ \E id \in Ids : GetById(id)
  \/ Return

SpecMerge == Init /\ [][MergeNext]_vars

\* one run of the pipeline against the database
PipelineNext ==
  \/ Tick
  \/ \E outcomes \in [DOMAIN Feeds -> FeedOutcomes] : StartRun(outcomes)
  \/ \E page \in Pages : ScrapeNext(page)
  \/ \E found \in 0..2, raises \in BOOLEAN : ProcessNext(found, raises)
  \/ SaveBatch
  \/ EndRun

SpecPipeline == Init /\ [][PipelineNext]_vars

\* the articles saved while the file store is read
ScanArticles ==
  {Dict(AllKeys, id, "t1", source, topics, "body", IsoStr(1)) :
     id \in Ids, source \in Sources, topics \in {<<"business">>, <<"business", "technology">>}}

\* reads of the file store while a save is writing a file
ScanNext ==
  \/ Tick
  \/ \E article \in ScanArticles : SaveBegin(article)
  \/ SaveEnd
  \/ \E limit \in Limits, skip \in Limits : Recent(limit, skip)
  \/ \E topic \in Topics, limit \in Limits, skip \in Limits : ByTopic(topic, limit, skip)
  \/ \E source \in Sources, limit \in Limits, skip \in Limits : BySource(source, limit, skip)
  \/ Count
  \/ TopicsSummary
  \/ SourcesSummary
  \/ Return

SpecScan == Init /\ [][ScanNext]_vars

\* what the feeds and the pages give in the scheduled runs
ScheduledOutcomes ==
  {<<bbc, cnn>> : bbc \in {[raises |-> FALSE, entries |-> <<[title |-> TitleFed, link |-> "http://bbc/1"]>>]},
                  cnn \in {[raises |-> TRUE, entries |-> <<>>],
                           [raises |-> FALSE, entries |-> <<[title |-> TitleTech, link |-> "http://cnn/2"]>>]}}
ScheduledPages == {p \in Pages : p.raises \/ (p.text = BodyBank /\ p.keywords = <<>>)}

\* the pipeline in scheduled mode
ScheduledNext ==
  \/ \E up \in BOOLEAN, outcomes \in ScheduledOutcomes : RunScheduled(up, outcomes)
  \/ \E page \in ScheduledPages : ScrapeNext(page)
  \/ \E found \in 0..2, raises \in BOOLEAN : ProcessNext(found, raises)
  \/ SaveBatch
  \/ Sleep

SpecScheduled == Init /\ [][ScheduledNext]_vars

\* what the feeds, the pages and the CSV file give when both paths ingest
IngestOutcomes ==
  {<<bbc, cnn>> :
     bbc \in {[raises |-> FALSE, entries |-> <<[title |-> TitleFed, link |-> link]>>] :
                link \in {"http://bbc/1", ""}},
     cnn \in {[raises |-> FALSE, entries |-> <<>>],
              [raises |-> FALSE, entries |-> <<[title |-> TitleFed, link |-> "http://cnn/2"]>>]}}
CsvRows ==
  {[title |-> TitleFed, link |-> link, content |-> content, source |-> ""] :
     link \in Links, content \in {"", BodyBank}}

\* a pipeline run and CSV ingestions against the same database
IngestNext ==
  \/ Tick
  \/ \E outcomes \in IngestOutcomes : StartRun(outcomes)
  \/ \E page \in ScheduledPages : ScrapeNext(page)
  \/ \E raises \in BOOLEAN : ProcessNext(0, raises)
  \/ SaveBatch
  \/ EndRun
  \/ \E row \in CsvRows, page \in ScheduledPages, raises \in BOOLEAN :
       IngestCsvRow(row, page, 0, raises)

SpecIngest == Init /\ [][IngestNext]_vars

\* feeds of up to MaxListed entries
ListedEntries ==
  {[title |-> title, link |-> link] : title \in {TitleFed, TitleTech},
                                      link \in {"http://bbc/1", "http://cnn/2"}}
FeedListings ==
  {[raises |-> TRUE, entries |-> <<>>]}
  \cup {[raises |-> FALSE, entries |-> es] :
          es \in UNION {[1..n -> ListedEntries] : n \in 0..MaxListed}}

\* one run of the pipeline over such feeds
FeedsNext ==
  \/ Tick
  \/ \E outcomes \in [DOMAIN Feeds -> FeedListings] : StartRun(outcomes)
  \/ \E page \in ScheduledPages : ScrapeNext(page)
  \/ \E raises \in BOOLEAN : ProcessNext(0, raises)
  \/ SaveBatch
  \/ EndRun

SpecFeeds == Init /\ [][FeedsNext]_vars

\* saves and reads of the two stores by concurrent callers
ConcurrentNext ==
  \/ Tick
  \/ \E article \in Articles \cup BadArticles : SaveBegin(article)
  \/ SaveEnd
  \/ \E id \in Ids : GetById(id)
  \/ Count
  \/ Return

SpecConcurrent == Init /\ [][ConcurrentNext]_vars

\* ------------------------------------------------- properties
\* every key of article is a key of the record, with the same value
Carries(record, article) ==
  \A k \in article.keys : k \in record.keys /\ record[k] = article[k]

\* the records of the directory, without the modification times
FsRecords(dir) == {[path |-> f.path, data |-> f.data] : f \in dir}

\* C1: after any sequence of save and save_articles calls either store holds
\* at most one record per article_id, and a save of an article_id that is
\* already stored leaves that one record carrying the saved article.
C1_OneRecordPerId ==
  /\ \A d1, d2 \in db : d1.article_id = d2.article_id => d1 = d2
  /\ \A f1, f2 \in fs : f1.data.article_id = f2.data.article_id => f1 = f2
  /\ (call.op = "save" /\ call.db_ok) =>
       \E d \in db : d.article_id = call.arg.article_id /\ Carries(d, call.arg)
  /\ (call.op = "save" /\ call.fs_ok) =>
       \E f \in fs : /\ f.data.article_id = call.arg.article_id
                     /\ f.data = Serialize(call.fs_article)
                     /\ Carries(call.fs_article, call.arg)

\* a save of a stored id with another title has happened, both ids stored
C1_Witness ==
  /\ call.op = "save" /\ call.db_ok /\ call.fs_ok
  /\ call.db_had /\ call.fs_had
  /\ Cardinality(db) = 2 /\ Cardinality(fs) = 2
  /\ call.arg.title = "t2"
  /\ "scraped_at" \notin call.arg.keys
  /\ \E d \in db : d.article_id = call.arg.article_id /\ d.scraped_at # NoStamp

\* C2: saving the article saved last once more, unchanged, returns true and
\* leaves the count and the stored records of both stores as they were.
C2_ResaveIdempotent ==
  [][(SaveAgain /\ call.db_ok /\ call.fs_ok) =>
       /\ call'.db_ok /\ call'.fs_ok
       /\ db' = db
       /\ FsRecords(fs') = FsRecords(fs)
       /\ DbGetArticleCount(db', NoFilter) = DbGetArticleCount(db, NoFilter)
       /\ FsCountArticles(fs') = FsCountArticles(fs)]_vars

\* an article without scraped_at was saved again after the clock advanced
C2_Witness ==
  /\ call.op = "save" /\ call.again /\ call.db_ok /\ call.fs_ok
  /\ "scraped_at" \notin call.arg.keys
  /\ \E f \in fs : /\ f.data.article_id = call.arg.article_id
                   /\ f.mtime > f.data.scraped_at.t

\* C3: save of an article without article_id returns false in both backends
\* and leaves both stores, and the caller's dict, as they were.
C3_MissingIdRefused ==
  [][(\E article \in BadArticles : Save(article)) =>
       /\ ~call'.db_ok /\ ~call'.fs_ok
       /\ db' = db /\ fs' = fs
       /\ call'.fs_article = call'.arg]_vars

\* a save without article_id was refused while both stores held records
C3_Witness ==
  /\ call.op = "save" /\ MissingId(call.arg)
  /\ ~call.db_ok /\ ~call.fs_ok
  /\ db # {} /\ fs # {}

\* C4: save_articles returns the number of articles of the list that have an
\* article_id, and every one of them is stored whatever failed before it: the
\* record of an id carries the last article of the list with that id.
C4_BatchCountsSuccesses ==
  call.op = "save_articles" =>
    LET b    == call.articles
        good == {i \in DOMAIN b : ~MissingId(b[i])}
    IN  /\ call.count = Cardinality(good)
        /\ \A i \in good :
             \E d \in db :
               /\ d.article_id = b[i].article_id
               /\ (\A j \in good : j > i => b[j].article_id # b[i].article_id)
                    => Carries(d, b[i])

\* a list whose first article has no article_id and whose last has one
C4_Witness ==
  /\ call.op = "save_articles"
  /\ Len(call.articles) >= 2
  /\ MissingId(call.articles[1])
  /\ ~MissingId(call.articles[Len(call.articles)])
  /\ call.count = Len(call.articles) - 1
  /\ DbHas(db, call.articles[Len(call.articles)].article_id)

\* C5: after save(article) returned true, get_by_id of its id returns a
\* record carrying every field of the article with the value saved, in both
\* backends; get_by_id of an id that is not stored returns None.
C5_RoundTrip ==
  reply.op = "get_by_id" =>
    /\ (call.op = "save" /\ call.db_ok /\ reply.id = call.arg.article_id) =>
         reply.db # <<>> /\ Carries(reply.db[1], call.arg)
    /\ (call.op = "save" /\ call.fs_ok /\ reply.id = call.arg.article_id) =>
         reply.fs # <<>> /\ Carries(reply.fs[1], call.arg)
    /\ ~DbHas(db, reply.id) => reply.db = <<>>
    /\ ~FsHas(fs, reply.id) => reply.fs = <<>>

\* ------------------------------------------------- properties of queries
IsQuery == reply.op \in {"recent", "by_topic", "by_source"}

\* what a caller observes of a record: not Mongo's _id, and a timestamp
\* string counted as equal to the datetime it denotes
Observed(record) ==
  [record EXCEPT !.keys = @ \ {"_id"},
                 !.scraped_at = IF @.kind = "datetime" THEN IsoStr(@.t) ELSE @]

ObservedSeq(q) == [i \in DOMAIN q |-> Observed(q[i])]

NoTies(q) ==
  \A i, j \in DOMAIN q : i # j => StampRank(q[i].scraped_at) # StampRank(q[j].scraped_at)

\* C6: the same sequence of calls gives the same observable results on both
\* backends: the booleans of save, the record of get_by_id, the counts, the
\* summary entries, and the records of a query (in the same order when no
\* two matching records tie on scraped_at).
C6_BackendsAgree ==
  /\ call.op = "save" => call.db_ok = call.fs_ok
  /\ reply.op = "get_by_id" => ObservedSeq(reply.db) = ObservedSeq(reply.fs)
  /\ reply.op = "count" => reply.db = reply.fs
  /\ reply.op = "topics_summary" => Range(reply.db) = Range(reply.fs)
  /\ IsQuery =>
       /\ Len(reply.db.out) = Len(reply.fs.out)
       /\ NoTies(reply.db.full) => ObservedSeq(reply.db.out) = ObservedSeq(reply.fs.out)

\* positions [skip, skip+limit) of a sequence
Slice(q, skip, limit) == SubSeq(q, skip + 1, Min(skip + limit, Len(q)))

\* C7: a query with limit L and skip S returns positions [S, S+L) of its full
\* filtered result, in both backends, for every L >= 0 and S >= 0.
C7_Pagination ==
  IsQuery =>
    /\ reply.db.out = Slice(reply.db.full, reply.skip, reply.limit)
    /\ reply.fs.out = Slice(reply.fs.full, reply.skip, reply.limit)

DescendingByScrapedAt(q) ==
  \A i, j \in DOMAIN q :
    i < j => StampRank(q[i].scraped_at) >= StampRank(q[j].scraped_at)

\* C8: every query returns its articles in descending order of scraped_at, in
\* both backends.
C8_SortedByScrapedAt ==
  IsQuery => DescendingByScrapedAt(reply.db.out) /\ DescendingByScrapedAt(reply.fs.out)

\* a summary is right for the records it was computed over: one entry per
\* topic some record holds, its count the number of records holding it,
\* entries in descending order of count
SummaryOf(summary, topicLists) ==
  /\ \A i \in DOMAIN summary :
       /\ summary[i].count = Cardinality({r \in topicLists : summary[i]._id \in Range(r.topics)})
       /\ summary[i].count > 0
  /\ \A r \in topicLists : \A t \in Range(r.topics) :
       \E i \in DOMAIN summary : summary[i]._id = t
  /\ \A i, j \in DOMAIN summary : i # j => summary[i]._id # summary[j]._id
  /\ \A i, j \in DOMAIN summary : i < j => summary[i].count >= summary[j].count

\* C9: topics_summary() lists exactly the topics stored articles hold, each
\* with the number of stored articles holding it, which is the value of
\* count({"topics": t}) as well, in descending order of count.
C9_TopicsSummary ==
  reply.op = "topics_summary" =>
    /\ SummaryOf(reply.db, {[id |-> d.article_id, topics |-> d.topics] : d \in db})
    /\ SummaryOf(reply.fs, {[id |-> f.path, topics |-> f.data.topics] : f \in fs})
    /\ \A i \in DOMAIN reply.db : reply.db[i].count = reply.counts[reply.db[i]._id]
    /\ \A t \in Topics : reply.counts[t] > 0 => \E i \in DOMAIN reply.db : reply.db[i]._id = t

\* two topics with different counts were summarised by both backends
C9_Witness ==
  /\ reply.op = "topics_summary"
  /\ Len(reply.db) = 2 /\ Len(reply.fs) = 2
  /\ reply.db[1].count = 2 /\ reply.db[2].count = 1
  /\ reply.fs[1].count = 2 /\ reply.fs[2].count = 1

\* C10: when a run of the pipeline has ended, whatever was raised while one
\* of its articles was fetched or processed, the run has succeeded and every
\* article it acquired has been classified and passed to storage.
C10_NoArticleAbortsBatch ==
  run.pc = "done" =>
    /\ run.result = TRUE
    /\ run.handed
    /\ Len(run.passed) = Len(run.articles)
    /\ \A i \in DOMAIN run.articles :
         /\ run.passed[i].article_id = run.articles[i].article_id
         /\ "topics" \in run.passed[i].keys
         /\ "entities" \in run.passed[i].keys

\* C11: in scheduled mode the process never exits, whatever goes wrong in a
\* run (the storage connection being unavailable at its start included).
C11_ScheduledNeverExits ==
  run.pc # "exited"

\* C12: scraped_at of a stored article is set once: no step, a later run
\* saving the same link again included, changes the scraped_at of a record
\* that is already stored.
C12_ScrapedAtSetOnce ==
  [][\A d \in db : \A e \in db' :
       e.article_id = d.article_id => e.scraped_at = d.scraped_at]_vars

\* the topics whose score for the article is above the threshold
RelevantTopics(article) == {t \in Range(TOPICS) : TopicScore(article, t) > 1}

\* C13: every processed article in which nothing matches a topic keyword
\* (its title and body hold none, and so no topic scores) has exactly the
\* topics ["general"], an article with empty or absent title and body
\* included.
C13_NoKeywordIsGeneral ==
  \A i \in DOMAIN run.processed :
    (\A t \in Range(TOPICS) : TopicScore(run.processed[i], t) = 0)
      => run.processed[i].topics = <<"general">>

\* the place of a topic in the configured list
TopicPos(t) == CHOOSE i \in DOMAIN TOPICS : TOPICS[i] = t

\* topic t ranks before topic u for the article: higher score, or equal score
\* and earlier in TOPICS
RanksBefore(article, t, u) ==
  \/ TopicScore(article, t) > TopicScore(article, u)
  \/ TopicScore(article, t) = TopicScore(article, u) /\ TopicPos(t) < TopicPos(u)

\* C14: the topics of every processed article are ["general"] when no topic
\* scores above 1, and else the first two (or the only one) of the topics
\* scoring above 1, ranked by descending score and, at equal score, by place
\* in TOPICS; no topic twice.
C14_TopTwoByScore ==
  \A i \in DOMAIN run.processed :
    LET article  == run.processed[i]
        result   == article.topics
        relevant == RelevantTopics(article)
    IN  IF relevant = {} THEN result = <<"general">>
        ELSE /\ Len(result) = Min(2, Cardinality(relevant))
             /\ \A j \in DOMAIN result :
                  /\ result[j] \in relevant
                  /\ \A k \in DOMAIN result : k < j => result[k] # result[j]
                  /\ \A u \in relevant \ {result[k] : k \in 1..j} :
                       RanksBefore(article, result[j], u)

\* the id of the empty string
EmptyLinkId == "d41d8cd98f00b204e9800998ecf8427e"

\* C15: the article id is a function of the link alone, the same in the feed
\* path and in the CSV path and at every time: every stub of a run, every
\* article built of a CSV row and every stored record has the digest of its
\* link as id; records of different links have different ids, and an empty
\* link has the id of the empty string.
C15_IdIsDigestOfLink ==
  /\ \A i \in DOMAIN run.articles :
       /\ run.articles[i].article_id = Md5(run.articles[i].link)
       /\ run.articles[i].link = "" => run.articles[i].article_id = EmptyLinkId
  /\ call.op \in {"csv", "csv_skipped", "csv_raised"} =>
       /\ call.arg.article_id = Md5(call.arg.link)
       /\ call.arg.link = "" => call.arg.article_id = EmptyLinkId
  /\ \A d \in db : d.article_id = Md5(d.link)
  /\ \A d, e \in db : d.link # e.link <=> d.article_id # e.article_id

\* a run and a CSV row have ingested the same link at different times, a
\* record of another link is stored too, and a stub with an empty link has
\* been built
C15_Witness ==
  /\ call.op = "csv"
  /\ run.handed
  /\ \E i \in DOMAIN run.passed :
       /\ run.passed[i].link = call.arg.link
       /\ run.passed[i].scraped_at # call.arg.scraped_at
       /\ run.passed[i].article_id = call.arg.article_id
  /\ \E i \in DOMAIN run.articles : run.articles[i].link = ""
  /\ \E d, e \in db : d.link # e.link

\* the number of stubs the feeds before feed i contribute
RECURSIVE StubsBefore(_, _)
StubsBefore(outcomes, i) ==
  IF i = 1 THEN 0
  ELSE StubsBefore(outcomes, i - 1)
       + (IF outcomes[i - 1].raises THEN 0 ELSE Len(outcomes[i - 1].entries))

\* C16: whichever feeds raise, parse_rss_feeds returns exactly the stubs of
\* the entries of the feeds that did not, in feed configuration order and
\* within a feed in entry order, each with content None and empty keywords
\* and topics.
C16_FeedFailuresIsolated ==
  [][\A outcomes \in [DOMAIN Feeds -> FeedListings] :
       StartRun(outcomes) =>
         /\ Len(run'.articles) = StubsBefore(outcomes, Len(Feeds) + 1)
         /\ \A i \in DOMAIN Feeds : ~outcomes[i].raises =>
              \A j \in DOMAIN outcomes[i].entries :
                LET stub == run'.articles[StubsBefore(outcomes, i) + j]
                IN  /\ stub.title = outcomes[i].entries[j].title
                    /\ stub.link = outcomes[i].entries[j].link
                    /\ stub.source = Feeds[i]
                    /\ {"content", "keywords", "topics"} \subseteq stub.keys
                    /\ stub.content = None
                    /\ stub.keywords = <<>>
                    /\ stub.topics = <<>>]_vars

\* the first feed raised, and the second gave two different entries, both
\* listed in their order
C16_Witness ==
  /\ run.pc = "scrape"
  /\ run.feed_errors = {Feeds[1]}
  /\ Len(run.articles) = 2
  /\ run.articles[1].source = Feeds[2]
  /\ run.articles[2].source = Feeds[2]
  /\ run.articles[1].link # run.articles[2].link

\* the fields scrape_article_content may set
FetchedFields == {"content", "keywords", "top_image", "authors"}

\* C17: every turn of the scraping loop returns the article: with every field
\* as on entry when the link is empty or the fetch raised, and with content,
\* keywords, top_image and authors set, and nothing else changed, when the
\* fetch succeeded.
C17_ScrapeAllOrNothing ==
  [][\A page \in Pages :
       (ScrapeNext(page) /\ Len(run.enriched) < Len(run.articles)) =>
         LET before == run.articles[Len(run.enriched) + 1]
             after  == run'.enriched[Len(run.enriched) + 1]
         IN  /\ Len(run'.enriched) = Len(run.enriched) + 1
             /\ run'.pc = "scrape"
             /\ IF before.link = "" \/ page.raises
                THEN /\ after = before
                     /\ after.content = None
                ELSE /\ after.keys = before.keys \cup FetchedFields
                     /\ after.content = page.text
                     /\ after.keywords = page.keywords
                     /\ after.top_image = page.top_image
                     /\ after.authors = page.authors
                     /\ \A k \in DOMAIN before \ (FetchedFields \cup {"keys"}) :
                          after[k] = before[k]]_vars

\* of the two articles of a run, the fetch of one raised and left it as it
\* was, and the fetch of the other succeeded
C17_Witness ==
  /\ Len(run.enriched) = 2
  /\ \E i, j \in DOMAIN run.enriched :
       /\ run.articles[i].link # ""
       /\ run.enriched[i] = run.articles[i]
       /\ run.enriched[i].content = None
       /\ run.enriched[j].content = BodyBank
       /\ "authors" \in run.enriched[j].keys

\* C18: a get_by_id that runs while a save of the same id is in progress
\* finds a record in each store where one was stored before the save began:
\* the record from before the save or the one after it, never none.
C18_WritesAtomic ==
  (reply.op = "get_by_id" /\ call.op = "writing" /\ reply.id = call.arg.article_id) =>
    /\ call.db_had => reply.db # <<>>
    /\ call.fs_had => reply.fs # <<>>

\* the article_ids a store holds
DbIds(coll) == {d.article_id : d \in coll}
FsIds(dir)  == {f.path : f \in dir}

\* C19: no step removes a record: the article_ids stored in each backend
\* only grow, and neither count decreases.
C19_NeverRemoves ==
  [][/\ DbIds(db) \subseteq DbIds(db')
     /\ FsIds(fs) \subseteq FsIds(fs')
     /\ DbGetArticleCount(db', NoFilter) >= DbGetArticleCount(db, NoFilter)
     /\ FsCountArticles(fs') >= FsCountArticles(fs)]_vars

\* both stores hold two ids, and the last save wrote over a stored record
\* with different fields
C19_Witness ==
  /\ call.op = "save"
  /\ call.db_ok /\ call.fs_ok
  /\ call.db_had /\ call.fs_had
  /\ ~call.again
  /\ DbIds(db) = Ids
  /\ FsIds(fs) = Ids
  /\ DbGetArticleCount(db, NoFilter) = 2
  /\ FsCountArticles(fs) = 2

\* the tokens of the body alone
BodyTokens(article) ==
  IF article.content = None THEN <<>> ELSE PreprocessText(article.content)

\* C20: for every processed article without phrase matches and without
\* matching keywords of its own, each topic's score is 3 per occurrence of
\* one of its keywords in the title plus 1 per occurrence in the body.
C20_TitleThreeBodyOne ==
  \A i \in DOMAIN run.processed :
    LET article == run.processed[i]
    IN  (article.keywords = <<>> /\ PhrasesIn(article.title) \cup PhrasesIn(article.content) = {})
        => \A t \in Range(TOPICS) :
             TopicScore(article, t)
               = 3 * Occurrences(PreprocessText(article.title), TopicKeywords(t))
                 + Occurrences(BodyTokens(article), TopicKeywords(t))

\* C21: in scheduled mode a run starts only when no run is in progress, and
\* after a run has returned the next starts only when the interval has
\* passed; within a run the feeds are acquired first, then the articles are
\* fetched one at a time, then classified one at a time, then the batch is
\* saved.
C21_RunsInOrder ==
  [][/\ run'.n # run.n => (run.pc = "idle" /\ run'.n = run.n + 1)
     /\ (run.pc = "done" /\ run'.pc # "done") => (run'.pc = "idle" /\ clock' = clock + 1)
     /\ (run.pc = "idle" /\ run'.pc # "idle") =>
          (run'.pc \in {"scrape", "exited"} /\ run'.enriched = <<>> /\ run'.processed = <<>>
           /\ ~run'.handed)
     /\ (run.pc = "scrape" /\ run'.pc # "scrape") => run'.pc = "process"
     /\ (run.pc = "process" /\ run'.pc # "process") => run'.pc \in {"save", "done"}
     /\ (run.pc = "save" /\ run'.pc # "save") => (run'.pc = "done" /\ run'.handed)
     /\ run.pc \notin {"idle", "done"} => run'.articles = run.articles
     /\ Len(run'.enriched) # Len(run.enriched) =>
          (run.pc = "scrape" /\ Len(run'.enriched) = Len(run.enriched) + 1) \/ run.pc = "idle"
     /\ Len(run'.processed) # Len(run.processed) =>
          (run.pc = "process" /\ Len(run'.processed) = Len(run.processed) + 1) \/ run.pc = "idle"
     /\ run'.pc = "process" => Len(run'.enriched) = Len(run'.articles)
     /\ run'.pc = "save" => Len(run'.processed) = Len(run'.articles)
     /\ run'.handed => (run'.passed = run'.processed /\ Len(run'.processed) = Len(run'.articles))
     /\ db' # db => (run.pc = "save" /\ run'.pc = "done")]_vars

\* the second run, started after the first had saved its batch and the
\* interval had passed, has fetched and classified two articles and saved
\* them
C21_Witness ==
  /\ run.n = 2
  /\ clock = 2
  /\ run.pc = "done"
  /\ run.handed
  /\ Len(run.passed) = 2
  /\ db # {}

\* the stored document / file content of an id
DbRecord(coll, id) == CHOOSE d \in coll : d.article_id = id
FsRecord(dir, id)  == (CHOOSE f \in dir : f.path = id).data

\* C22: a save over a stored article_id merges in DatabaseHandler - every key
\* of the article is overwritten, every other stored field stays - and
\* replaces in FileStorage - the record is the article, plus scraped_at when
\* the article has none, and the stored fields the article lacks are gone.
C22_MergeVersusReplace ==
  [][\A article \in MergeArticles :
       (Save(article) /\ DbHas(db, article.article_id) /\ FsHas(fs, article.article_id)) =>
         LET id     == article.article_id
             before == DbRecord(db, id)
             after  == DbRecord(db', id)
             file   == FsRecord(fs', id)
         IN  /\ after.keys = before.keys \cup article.keys
             /\ \A k \in article.keys : after[k] = article[k]
             /\ \A k \in before.keys \ (article.keys \cup {"_id"}) : after[k] = before[k]
             /\ file.keys = article.keys \cup {"scraped_at"}
             /\ \A k \in article.keys : file[k] = article[k]
             /\ "scraped_at" \notin article.keys => file.scraped_at = IsoStr(clock)
             /\ \A k \in DOMAIN file \ (file.keys \cup {"keys"}) : file[k] = EmptyDict[k]]_vars

\* the last save wrote an article without content over a record stored with
\* content: the document still has the content, the file has none
C22_Witness ==
  /\ call.op = "save"
  /\ call.db_had /\ call.fs_had
  /\ "content" \notin call.arg.keys
  /\ "content" \in DbRecord(db, call.arg.article_id).keys
  /\ DbRecord(db, call.arg.article_id).content = "body"
  /\ "content" \notin FsRecord(fs, call.arg.article_id).keys
  /\ DbRecord(db, call.arg.article_id).title = call.arg.title

\* C23: no step makes the content of a stored article absent or empty once
\* it was stored non-empty, a later run whose fetch of the same link failed
\* included.
C23_ContentNeverLost ==
  [][\A d \in db : ~Falsy(d.content) =>
       \A e \in db' : e.article_id = d.article_id => ~Falsy(e.content)]_vars

\* the places of the articles without a link in a list of the run
Linkless(articles) == {i \in DOMAIN articles : articles[i].link = ""}

\* C24: the feed entries without a link are not skipped and all get the id of
\* the empty string; after a run that had k >= 1 of them the store holds
\* exactly one record of that id, with the fields of the last of them in the
\* order of the batch, and save_articles has counted every one of the k.
C24_LinklessCollapse ==
  (run.pc = "done" /\ run.handed /\ Linkless(run.articles) # {}) =>
    LET k    == Cardinality(Linkless(run.articles))
        last == run.passed[CHOOSE i \in Linkless(run.passed) :
                             \A j \in Linkless(run.passed) : j <= i]
        held == {d \in db : d.article_id = EmptyLinkId}
    IN  /\ Cardinality(Linkless(run.passed)) = k
        /\ \A i \in Linkless(run.passed) : run.passed[i].article_id = EmptyLinkId
        /\ Cardinality(held) = 1
        /\ \A d \in held : /\ d.keys = last.keys \cup {"_id"}
                           /\ \A f \in last.keys : d[f] = last[f]
        /\ run.saved_count = Len(run.passed)
        /\ run.saved_count >= k

\* a run with two entries without a link, of different titles, has saved
C24_Witness ==
  /\ run.pc = "done" /\ run.handed
  /\ Cardinality(Linkless(run.passed)) = 2
  /\ run.passed[1].title # run.passed[2].title
  /\ run.saved_count = 2
  /\ \E d \in db : d.article_id = EmptyLinkId /\ d.title = run.passed[2].title

\* the run has returned False
RunFailed == run.pc = "done" /\ ~run.result

\* C25: a run writes to the store in its last step only, when every article
\* of the run has been fetched and classified; the step in which a run fails
\* writes nothing, and when a run has returned False no stored record is of
\* that run: the store is what it was when the run began.
C25_SaveOnlyAtEnd ==
  /\ [](RunFailed =>
          /\ ~run.handed
          /\ \A i \in DOMAIN run.articles :
               \A d \in db : d.article_id = run.articles[i].article_id
                               => d.scraped_at # run.articles[i].scraped_at)
  /\ [][/\ db' # db => /\ run.pc = "save"
                       /\ Len(run.enriched) = Len(run.articles)
                       /\ Len(run.processed) = Len(run.articles)
                       /\ run'.pc = "done" /\ run'.result
        /\ (run.pc \in {"scrape", "process"} \/ RunFailed') => db' = db]_vars

\* the second run has fetched both of its articles, has classified the first and
\* has failed at the second, and the store holds the record of the first run
C25_Witness ==
  /\ RunFailed /\ run.n = 2
  /\ Len(run.articles) = 2 /\ Len(run.enriched) = 2 /\ Len(run.processed) = 1
  /\ Cardinality(db) = 1
  /\ \A d \in db : d.scraped_at = IsoStr(1) /\ d.article_id = run.articles[1].article_id

\* the files that hold no complete JSON text
Torn(dir) == {f \in dir : f.data = PartialJson}

\* the loop of a filtered read goes through every file: the matches are too
\* few for it to break
ScansAll(r) == Len(r.fs.full) < r.skip + (IF r.limit > 1 THEN r.limit ELSE 1)

\* the file is in the slice [skip:skip+limit] of the files by modification
\* time, however the files of equal time are ordered
InPage(dir, f, r) ==
  /\ Cardinality({g \in dir : g.mtime > f.mtime}) >= r.skip
  /\ Cardinality({g \in dir \ {f} : g.mtime >= f.mtime}) < r.skip + r.limit

\* C26: a read of the file store that opens a file it cannot parse returns
\* the empty list as a whole. The two summaries open every file, a filtered
\* read opens every file when its loop does not break, and get_recent_articles
\* opens the files of its page; count_articles still counts the file.
C26_ScanFailsAsAWhole ==
  [][(reply = Idle /\ reply' # Idle /\ Torn(fs) # {}) =>
       /\ reply'.op \in {"topics_summary", "sources_summary"} => reply'.fs = <<>>
       /\ (reply'.op \in {"by_topic", "by_source"} /\ ScansAll(reply')) => reply'.fs.out = <<>>
       /\ (reply'.op = "recent" /\ \E f \in Torn(fs) : InPage(fs, f, reply'))
            => reply'.fs.out = <<>>
       /\ reply'.op = "count" => /\ reply'.fs = Cardinality({f.path : f \in fs})
                                 /\ reply'.fs >= Cardinality(Torn(fs))]_vars

\* while one of two files is being written, a read by topic that the other
\* file matches has returned nothing
C26_Witness ==
  /\ call.op = "writing" /\ Torn(fs) # {} /\ Cardinality(fs) = 2
  /\ reply.op = "by_topic" /\ reply.limit = 2 /\ reply.skip = 0
  /\ Len(reply.fs.full) = 1
  /\ reply.fs.out = <<>>

====
